---- MODULE Spec2Model ----
(***************************************************************************)
(* Stream VByte codec: the scalar encoder and decoder, the encode driver,  *)
(* the NEON encode kernel and the decode cursor, as a state machine over   *)
(* one encode call followed by decode / cursor operations.                 *)
(*                                                                         *)
(* A u32 is kept as two 16-bit limbs [hi, lo], because the model checker's *)
(* integers are 32-bit signed; to_le_bytes / from_le_bytes / leading_zeros *)
(* are computed on the limbs.  Byte buffers are sequences of 0..255 and a  *)
(* Rust slice buf[a..] is Drop(buf, a).                                    *)
(***************************************************************************)
EXTENDS Integers, Sequences, FiniteSets, TLC

VARIABLES
    input,      \* the u32 slice handed to encode
    encoder,    \* "none" before encode, then the backend E of encode::<E>
    output,     \* the byte buffer handed to encode
    pc,         \* "start", "encoded", "decoded", "cursor", "returned", "panicked"
    encoded_len,\* the value returned by encode
    ret,        \* the value returned by the last decode, decode_slice or decode_sink
    ub,         \* TRUE once a raw-pointer access left its buffer (undefined behaviour)
    assert_ok,  \* value of encode's debug_assert_eq! condition
    cursor,     \* the DecodeCursor
    decoded,    \* the u32 slice handed to decode / decode_slice
    stream,     \* every on_number(num, position) call made on the caller's sink, in order
    ops,        \* the calls made on the cursor so far
    call        \* the last call of encode or of a kernel: its arguments and what it left

vars == <<input, encoder, output, pc, encoded_len, ret, ub, assert_ok, cursor, decoded, stream, ops, call>>

-----------------------------------------------------------------------------
(* Bounds of the model *)

\* every sequence over Vals of at most this length is an input
MaxLen == 4
\* the kernels are called on the patterned inputs of up to this number of quads
MaxQuads == 16
\* a truncated value region lacks up to this number of its last bytes
MaxCut == 3
\* the patterned inputs have at most this length
MaxPatLen == 12
\* the output buffer is 5 * len + slack bytes, slack in -MaxSlack .. MaxSlack
MaxSlack == 1
\* at most this many operations are applied to one cursor
MaxOps == 2

-----------------------------------------------------------------------------
(* Helpers *)

Max(a, b) == IF a >= b THEN a ELSE b
Min(a, b) == IF a <= b THEN a ELSE b
Take(s, n) == SubSeq(s, 1, n)
Drop(s, n) == SubSeq(s, n + 1, Len(s))
Fill(n, b) == [i \in 1..n |-> b]

U(h, l) == [hi |-> h, lo |-> l]
U32_MAX == U(65535, 65535)

\* u32::leading_zeros
BitLen16(x) == IF x = 0 THEN 0 ELSE CHOOSE k \in 1..16 : 2^(k-1) <= x /\ x < 2^k
leading_zeros(num) ==
    IF num.hi # 0 THEN 16 - BitLen16(num.hi) ELSE 32 - BitLen16(num.lo)

\* u32::to_le_bytes / u32::from_le_bytes
to_le_bytes(num) ==
    <<num.lo % 256, num.lo \div 256, num.hi % 256, num.hi \div 256>>
from_le_bytes(buf) ==
    [hi |-> buf[3] + 256 * buf[4], lo |-> buf[1] + 256 * buf[2]]

-----------------------------------------------------------------------------
(* lib.rs: EncodedShape *)

encoded_shape(count) ==
    [control_bytes_len          |-> (count + 3) \div 4,
     complete_control_bytes_len |-> count \div 4,
     leftover_numbers           |-> count % 4]

-----------------------------------------------------------------------------
(* tables: indexed by control byte *)

LaneCode(c, i) == (c \div (4^i)) % 4
DECODE_LENGTH_PER_NUM_TABLE(c) == [i \in 0..3 |-> LaneCode(c, i) + 1]
DECODE_LENGTH_PER_QUAD_TABLE(c) ==
    4 + LaneCode(c, 0) + LaneCode(c, 1) + LaneCode(c, 2) + LaneCode(c, 3)

\* a cumulative_encoded_len that leaves the first control byte out
RECURSIVE cumulative_encoded_len_skip_first(_)
cumulative_encoded_len_skip_first(control_bytes) ==
    IF Len(control_bytes) <= 1 THEN 0
    ELSE DECODE_LENGTH_PER_QUAD_TABLE(control_bytes[2])
         + cumulative_encoded_len_skip_first(Tail(control_bytes))

RECURSIVE cumulative_encoded_len(_)
cumulative_encoded_len(control_bytes) ==
    IF control_bytes = <<>> THEN 0
    ELSE DECODE_LENGTH_PER_QUAD_TABLE(Head(control_bytes))
         + cumulative_encoded_len(Tail(control_bytes))

-----------------------------------------------------------------------------
(* encode/mod.rs: encode_num_scalar *)

\* an encoded_length that rounds the leading zero bytes up
encoded_length_round_up(num) == Max(1, 4 - (leading_zeros(num) + 7) \div 8)
\* an encoded_length that counts one byte too many
encoded_length_plus_one(num) == Max(1, 5 - leading_zeros(num) \div 8)
\* std::cmp::max(1_usize, 4 - num.leading_zeros() as usize / 8)
encoded_length(num) == Max(1, 4 - leading_zeros(num) \div 8)

\* output[..len].copy_from_slice(&buf[..len]); panics if output or buf is shorter
\* than len
CopyNum(len, buf, out) ==
    IF len > Len(out) \/ len > Len(buf)
    THEN [len |-> len, out |-> out, panic |-> TRUE]
    ELSE [len |-> len, out |-> Take(buf, len) \o Drop(out, len), panic |-> FALSE]

\* encode_num_scalar(num, output) -> len
encode_num_scalar(num, out) == CopyNum(encoded_length(num), to_le_bytes(num), out)

\* the slice out[off..] written by r, seen on the whole of out
Unslice(out, off, r) ==
    [len |-> r.len, out |-> Take(out, off) \o r.out, panic |-> r.panic]

\* encode_num_scalar(num, &mut buf[off..]); the slice panics if off > buf.len()
encode_num_at(num, buf, off) ==
    IF off > Len(buf)
    THEN [len |-> 0, out |-> buf, panic |-> TRUE]
    ELSE Unslice(buf, off, encode_num_scalar(num, Drop(buf, off)))

\* acc = [out, off, lens, panic]: the buffer, the running offset and the lengths
\* so far; r is the result of encoding one more number at acc.off
EncodeNumAcc(acc, r) ==
    [out   |-> r.out,
     off   |-> acc.off + r.len,
     lens  |-> Append(acc.lens, r.len),
     panic |-> r.panic]

\* inp[i], inp[i + 1], ..., inp[last] (1-based) encoded one after the other
RECURSIVE EncodeNums(_, _, _, _)
EncodeNums(inp, acc, i, last) ==
    IF i > last \/ acc.panic THEN acc
    ELSE EncodeNums(inp,
            EncodeNumAcc(acc, encode_num_at(inp[i], acc.out, acc.off)),
            i + 1, last)

-----------------------------------------------------------------------------
(* scalar.rs: impl Encoder for Scalar *)

\* a control byte with lane 0 in the top two bits
ControlByteReversed(len0, len1, len2, len3) ==
    (len3 - 1) + (len2 - 1) * 4 + (len1 - 1) * 16 + (len0 - 1) * 64

\* ((len0 - 1) | (len1 - 1) << 2 | (len2 - 1) << 4 | (len3 - 1) << 6) as u8
ControlByte(len0, len1, len2, len3) ==
    (len0 - 1) + (len1 - 1) * 4 + (len2 - 1) * 16 + (len3 - 1) * 64

\* the end of one iteration of the loop over control_bytes: acc holds the four
\* numbers' encoding; q is the 1-based index of the control byte.  writes counts
\* the stores into each control byte.
ScalarQuadDone(st, q, acc) ==
    IF acc.panic
    THEN [st EXCEPT !.encoded_nums = acc.out, !.panic = TRUE]
    ELSE [nums_encoded  |-> st.nums_encoded + 4,
          bytes_written |-> acc.off,
          control_bytes |-> [st.control_bytes EXCEPT ![q] =
                ControlByte(acc.lens[1], acc.lens[2], acc.lens[3], acc.lens[4])],
          encoded_nums  |-> acc.out,
          writes        |-> [st.writes EXCEPT ![q] = @ + 1],
          ub            |-> st.ub,
          panic         |-> FALSE]

\* one iteration: input[nums_encoded .. nums_encoded + 3] are read (a panic if
\* input is too short), then encoded at bytes_written, bytes_written + len0, ...
ScalarEncodeQuad(inp, st, q) ==
    IF st.nums_encoded + 4 > Len(inp) THEN [st EXCEPT !.panic = TRUE]
    ELSE ScalarQuadDone(st, q,
            EncodeNums(inp,
                [out |-> st.encoded_nums, off |-> st.bytes_written,
                 lens |-> <<>>, panic |-> FALSE],
                st.nums_encoded + 1, st.nums_encoded + 4))

RECURSIVE ScalarEncodeLoop(_, _, _)
ScalarEncodeLoop(inp, st, q) ==
    IF q > Len(st.control_bytes) \/ st.panic THEN st
    ELSE ScalarEncodeLoop(inp, ScalarEncodeQuad(inp, st, q), q + 1)

\* Scalar::encode_quads(input, control_bytes, encoded_nums) -> (nums_encoded, bytes_written)
Scalar_encode_quads(inp, control_bytes, encoded_nums) ==
    ScalarEncodeLoop(inp,
        [nums_encoded |-> 0, bytes_written |-> 0, control_bytes |-> control_bytes,
         encoded_nums |-> encoded_nums, writes |-> Fill(Len(control_bytes), 0),
         ub |-> FALSE, panic |-> FALSE], 1)

-----------------------------------------------------------------------------
(* encode/neon.rs: impl Encoder for NeonEncoder *)

\* wrapping 32-bit multiply (vmul_u32, one lane) on little-endian bytes
MulU32(a, b) ==
    LET col0 == a[1] * b[1]
        col1 == a[1] * b[2] + a[2] * b[1] + col0 \div 256
        col2 == a[1] * b[3] + a[2] * b[2] + a[3] * b[1] + col1 \div 256
        col3 == a[1] * b[4] + a[2] * b[3] + a[3] * b[2] + a[4] * b[1] + col2 \div 256
    IN  <<col0 % 256, col1 % 256, col2 % 256, col3 % 256>>

SHIFT == 3
\* 1 | 1 << 10 | 1 << 20 | 1 << 30, little-endian
CONCAT == <<1, 4, 16, 64>>
\* 1 | 1 << 8 | 1 << 16 | 1 << 24, little-endian
SUM == <<1, 1, 1, 1>>

\* vqsubq_u32(shifts, vshrq_n_u32(vclzq_u32(inq), 3)), one lane
NeonLaneCode(num) == Max(0, SHIFT - leading_zeros(num) \div 8)

\* a gather that takes the lane codes in ascending order: bytes 0, 4, 8, 12
NeonMulshift_gather_ascending(quad) ==
    <<NeonLaneCode(quad[1]), NeonLaneCode(quad[2]),
      NeonLaneCode(quad[3]), NeonLaneCode(quad[4])>>

\* vqtbl1_u8(lanebytes, GATHER_LO) reinterpreted as u32: bytes 12, 8, 4, 0 of the
\* four lane codes
NeonMulshift(quad) ==
    <<NeonLaneCode(quad[4]), NeonLaneCode(quad[3]),
      NeonLaneCode(quad[2]), NeonLaneCode(quad[1])>>

\* (code_and_length[0] >> 24, 4 + (code_and_length[1] >> 24))
NeonCode(quad) == MulU32(NeonMulshift(quad), CONCAT)[4]
NeonLength(quad) == 4 + MulU32(NeonMulshift(quad), SUM)[4]

\* the first output position (0-based) of each lane's bytes, and the end
ShuffleStarts(l) ==
    <<0, l[0], l[0] + l[1], l[0] + l[1] + l[2], l[0] + l[1] + l[2] + l[3]>>
ShuffleFrom(st) ==
    [p \in 1..16 |->
        IF p <= st[2] THEN p - 1
        ELSE IF p <= st[3] THEN 4 + (p - 1 - st[2])
        ELSE IF p <= st[4] THEN 8 + (p - 1 - st[3])
        ELSE IF p <= st[5] THEN 12 + (p - 1 - st[4])
        ELSE 255]

\* NEON_ENCODE_SHUFFLE_TABLE[code]: the source byte index for each of the 16 output
\* bytes; the bytes kept of lane 0, then of lane 1, ...; 255 (out of range, so the
\* table lookup yields 0) after them
NEON_ENCODE_SHUFFLE_TABLE(code) ==
    ShuffleFrom(ShuffleStarts(DECODE_LENGTH_PER_NUM_TABLE(code)))

QuadBytes(quad) ==
    to_le_bytes(quad[1]) \o to_le_bytes(quad[2])
    \o to_le_bytes(quad[3]) \o to_le_bytes(quad[4])

\* vqtbl1q_u8(inu, encoding_shuffle)
vqtbl1q_u8(inu, shuffle) ==
    [p \in 1..16 |-> IF shuffle[p] < 16 THEN inu[shuffle[p] + 1] ELSE 0]

\* vld1q_u32(input.as_ptr()): four u32 whatever the length of input; a lane past
\* the end of input holds junk
vld1q_u32(inp, junk) == [i \in 1..4 |-> IF i <= Len(inp) THEN inp[i] ELSE junk]

\* vst1q_u8(output.as_mut_ptr(), stored): 16 bytes whatever the length of output;
\* the bytes past its end land outside the buffer
vst1q_u8(out, stored) ==
    Take(stored, Min(16, Len(out))) \o Drop(out, Min(16, Len(out)))

NeonEncodeQuad(inp, control_bytes, out, quad) ==
    [nums_encoded  |-> 0,
     bytes_written |-> NeonLength(quad),
     control_bytes |-> control_bytes,
     encoded_nums  |-> vst1q_u8(out,
                          vqtbl1q_u8(QuadBytes(quad),
                                     NEON_ENCODE_SHUFFLE_TABLE(NeonCode(quad)))),
     writes        |-> Fill(Len(control_bytes), 0),
     ub            |-> Len(inp) < 4 \/ Len(out) < 16,
     panic         |-> FALSE]

\* NeonEncoder::encode_quads(input, control_bytes, output) -> (nums_encoded, length).
\* The load past a short input and the store past a short output are undefined
\* behaviour and set ub.  No control byte is written and nums_encoded stays 0.
Neon_encode_quads(inp, control_bytes, out, junk) ==
    NeonEncodeQuad(inp, control_bytes, out, vld1q_u32(inp, junk))

-----------------------------------------------------------------------------
(* encode/sse41.rs: impl Encoder for Sse41, the SIMD encode kernel with its loop: *)
(* each of the first max(0, N - 3) quads is shuffled and stored as 16 bytes at    *)
(* the running offset, its control byte written, the offset advanced by its       *)
(* length                                                                         *)

Sse41QuadDone(st, q, quad) ==
    [nums_encoded  |-> st.nums_encoded + 4,
     bytes_written |-> st.bytes_written + NeonLength(quad),
     control_bytes |-> [st.control_bytes EXCEPT ![q] = NeonCode(quad)],
     encoded_nums  |-> Take(st.encoded_nums, st.bytes_written)
                       \o vst1q_u8(Drop(st.encoded_nums, st.bytes_written),
                              vqtbl1q_u8(QuadBytes(quad),
                                         NEON_ENCODE_SHUFFLE_TABLE(NeonCode(quad)))),
     writes        |-> [st.writes EXCEPT ![q] = @ + 1],
     ub            |-> st.ub \/ st.bytes_written + 16 > Len(st.encoded_nums),
     panic         |-> FALSE]

RECURSIVE Sse41EncodeLoop(_, _, _, _)
Sse41EncodeLoop(inp, st, q, control_byte_limit) ==
    IF q > control_byte_limit THEN st
    ELSE Sse41EncodeLoop(inp,
            Sse41QuadDone(st, q, SubSeq(inp, 4 * q - 3, 4 * q)),
            q + 1, control_byte_limit)

Sse41_encode_quads(inp, control_bytes, out) ==
    Sse41EncodeLoop(inp,
        [nums_encoded |-> 0, bytes_written |-> 0, control_bytes |-> control_bytes,
         encoded_nums |-> out, writes |-> Fill(Len(control_bytes), 0),
         ub |-> FALSE, panic |-> FALSE],
        1, Min(Max(0, Len(control_bytes) - 3), Len(inp) \div 4))

-----------------------------------------------------------------------------
(* encode/mod.rs: encode *)

Encoders == {"Scalar", "Neon"}
DriverEncoders == {"Scalar", "Neon", "Sse41"}

E_encode_quads(E, inp, control_bytes, out, junk) ==
    IF E = "Scalar" THEN Scalar_encode_quads(inp, control_bytes, out)
    ELSE IF E = "Neon" THEN Neon_encode_quads(inp, control_bytes, out, junk)
    ELSE Sse41_encode_quads(inp, control_bytes, out)

\* what encode leaves: writes counts the stores into each control byte
EncodeResult(r, o, p, u, a, w) ==
    [ret |-> r, output |-> o, panic |-> p, ub |-> u, assert_ok |-> a, writes |-> w]

\* one iteration of the loop over the leftover numbers, r the result of
\* encode_num_scalar(num, &mut encoded_bytes[num_bytes_written..]):
\* control_byte |= ((len - 1) as u8) << (i * 2)
LeftoverStep_shift_by_i(st, i, r) ==
    IF r.panic
    THEN [st EXCEPT !.encoded_bytes = r.out, !.panic = TRUE]
    ELSE [control_byte      |-> st.control_byte + (r.len - 1) * 2^i,
          nums_encoded      |-> st.nums_encoded + 1,
          num_bytes_written |-> st.num_bytes_written + r.len,
          encoded_bytes     |-> r.out,
          panic             |-> FALSE]
LeftoverStep(st, i, r) ==
    IF r.panic
    THEN [st EXCEPT !.encoded_bytes = r.out, !.panic = TRUE]
    ELSE [control_byte      |-> st.control_byte + (r.len - 1) * 4^i,
          nums_encoded      |-> st.nums_encoded + 1,
          num_bytes_written |-> st.num_bytes_written + r.len,
          encoded_bytes     |-> r.out,
          panic             |-> FALSE]

RECURSIVE LeftoverLoop(_, _, _, _)
LeftoverLoop(inp, st, i, leftover_numbers) ==
    IF i >= leftover_numbers \/ st.panic THEN st
    ELSE IF st.nums_encoded + 1 > Len(inp) THEN [st EXCEPT !.panic = TRUE]
    ELSE LeftoverLoop(inp,
            LeftoverStep(st, i,
                encode_num_at(inp[st.nums_encoded + 1], st.encoded_bytes,
                              st.num_bytes_written)),
            i + 1, leftover_numbers)

\* control_bytes[complete_control_bytes_len] = control_byte; the return value
EncodeLast(shape, m, l) ==
    IF l.panic
    THEN EncodeResult(0, m.cb \o l.encoded_bytes, TRUE, m.ub, m.ok, m.writes)
    ELSE EncodeResult(Len(m.cb) + l.num_bytes_written,
            [m.cb EXCEPT ![shape.complete_control_bytes_len + 1] = l.control_byte]
                \o l.encoded_bytes,
            FALSE, m.ub, m.ok, Append(m.writes, 1))

\* the last control byte, if there were leftovers; m = [cb, eb, nbw, ok, ub, panic]
\* is the state after both encode_quads calls
EncodeLeftover(inp, shape, m) ==
    IF m.panic THEN EncodeResult(0, m.cb \o m.eb, TRUE, m.ub, TRUE, m.writes)
    ELSE IF shape.leftover_numbers = 0
    THEN EncodeResult(Len(m.cb) + m.nbw, m.cb \o m.eb, FALSE, m.ub, m.ok, m.writes)
    ELSE EncodeLast(shape, m,
            LeftoverLoop(inp,
                [control_byte      |-> 0,
                 nums_encoded      |-> shape.complete_control_bytes_len * 4,
                 num_bytes_written |-> m.nbw,
                 encoded_bytes     |-> m.eb,
                 panic             |-> FALSE],
                0, shape.leftover_numbers))

\* the buffers after Scalar::encode_quads returned r2 on
\* control_bytes[control_bytes_written..complete] and encoded_bytes[num_bytes_written..];
\* ok is the condition of the debug_assert_eq!
AfterScalar(shape, control_bytes, r1, r2) ==
    [cb    |-> Take(r1.control_bytes, r1.nums_encoded \div 4) \o r2.control_bytes
               \o Drop(control_bytes, shape.complete_control_bytes_len),
     eb    |-> Take(r1.encoded_nums, r1.bytes_written) \o r2.encoded_nums,
     nbw   |-> r1.bytes_written + r2.bytes_written,
     ok    |-> shape.complete_control_bytes_len * 4
                  = r1.nums_encoded + r2.nums_encoded,
     writes |-> [i \in 1..Len(r1.writes) |->
                    r1.writes[i]
                    + (IF i > r1.nums_encoded \div 4
                       THEN r2.writes[i - r1.nums_encoded \div 4] ELSE 0)],
     ub    |-> r1.ub,
     panic |-> r2.panic]

\* the part of encode after E::encode_quads returned r1: "may be some input left,
\* use Scalar to finish it"; the three slices panic if their start is past the end
EncodeFinish(inp, shape, control_bytes, r1) ==
    IF r1.panic
       \/ r1.nums_encoded > Len(inp)
       \/ r1.nums_encoded \div 4 > shape.complete_control_bytes_len
       \/ r1.bytes_written > Len(r1.encoded_nums)
    THEN EncodeResult(0,
            r1.control_bytes \o Drop(control_bytes, shape.complete_control_bytes_len)
                \o r1.encoded_nums,
            TRUE, r1.ub, TRUE, r1.writes)
    ELSE EncodeLeftover(inp, shape,
            AfterScalar(shape, control_bytes, r1,
                Scalar_encode_quads(Drop(inp, r1.nums_encoded),
                    SubSeq(r1.control_bytes, r1.nums_encoded \div 4 + 1,
                           shape.complete_control_bytes_len),
                    Drop(r1.encoded_nums, r1.bytes_written))))

\* output.split_at_mut(shape.control_bytes_len) panics if output is shorter
EncodeSplit(E, inp, out, junk, shape) ==
    IF shape.control_bytes_len > Len(out)
    THEN EncodeResult(0, out, TRUE, FALSE, TRUE, <<>>)
    ELSE EncodeFinish(inp, shape, Take(out, shape.control_bytes_len),
            E_encode_quads(E, inp, Take(out, shape.complete_control_bytes_len),
                Drop(out, shape.control_bytes_len), junk))

\* an encode without the early return on an empty input
encode_without_empty_check(E, inp, out, junk) ==
    EncodeSplit(E, inp, out, junk, encoded_shape(Len(inp)))

\* encode::<E>(input, output) -> usize
encode(E, inp, out, junk) ==
    IF inp = <<>> THEN EncodeResult(0, out, FALSE, FALSE, TRUE, <<>>)
    ELSE EncodeSplit(E, inp, out, junk, encoded_shape(Len(inp)))

-----------------------------------------------------------------------------
(* decode/mod.rs: decode_num_scalar, the sinks *)

\* a decode_num_scalar that reads a whole word whatever len is
decode_num_scalar_whole_word(len, inp) ==
    IF 4 > Len(inp)
    THEN [num |-> U(0, 0), panic |-> TRUE]
    ELSE [num |-> from_le_bytes(Take(inp, 4)), panic |-> FALSE]

\* a decode_num_scalar that takes the bytes there are and leaves the rest zero
decode_num_scalar_zero_fill(len, inp) ==
    [num |-> from_le_bytes(Take(inp, Min(len, Len(inp))) \o Fill(4 - Min(len, Len(inp)), 0)),
     panic |-> FALSE]

\* decode_num_scalar(len, input): buf[0..len].copy_from_slice(&input[0..len])
decode_num_scalar(len, inp) ==
    IF len > Len(inp)
    THEN [num |-> U(0, 0), panic |-> TRUE]
    ELSE [num |-> from_le_bytes(Take(inp, len) \o Fill(4 - len, 0)), panic |-> FALSE]

\* decode_num_scalar(len, &buf[off..]) seen on the whole of buf
decode_num_at(len, buf, off) ==
    IF off > Len(buf) THEN [num |-> U(0, 0), panic |-> TRUE]
    ELSE decode_num_scalar(len, Drop(buf, off))

\* A sink: slice = TRUE is SliceDecodeSink over output; otherwise a caller's sink
\* that only receives the numbers.  calls is the history of on_number calls.
\* quads is the history of on_quad calls.
SliceDecodeSink_new(out) ==
    [slice |-> TRUE, output |-> out, calls |-> <<>>, quads |-> <<>>, panic |-> FALSE]
CallerSink ==
    [slice |-> FALSE, output |-> <<>>, calls |-> <<>>, quads |-> <<>>, panic |-> FALSE]

\* DecodeSingleSink::on_number(num, nums_decoded); for SliceDecodeSink
\* self.output[nums_decoded] = num
on_number(sink, num, nums_decoded) ==
    IF sink.slice /\ nums_decoded >= Len(sink.output)
    THEN [sink EXCEPT !.panic = TRUE]
    ELSE [sink EXCEPT
            !.calls = Append(@, <<num, nums_decoded>>),
            !.output = IF sink.slice THEN [@ EXCEPT ![nums_decoded + 1] = num] ELSE @]

\* D::write_quad_to_slice(quad, slice): the four numbers of quad stored over slice
write_quad_to_slice(quad, slice) == quad

\* DecodeQuadSink::on_quad(quad, nums_decoded); for SliceDecodeSink
\* D::write_quad_to_slice(quad, &mut self.output[nums_decoded..(nums_decoded + 4)])
on_quad(sink, quad, nums_decoded) ==
    IF sink.slice /\ nums_decoded + 4 > Len(sink.output)
    THEN [sink EXCEPT !.panic = TRUE]
    ELSE [sink EXCEPT
            !.quads = Append(@, <<quad, nums_decoded>>),
            !.output = IF sink.slice
                       THEN Take(@, nums_decoded)
                            \o write_quad_to_slice(quad, SubSeq(@, nums_decoded + 1, nums_decoded + 4))
                            \o Drop(@, nums_decoded + 4)
                       ELSE @]

-----------------------------------------------------------------------------
(* scalar.rs: impl Decoder for Scalar *)

\* a lane that always advances by a whole word
LaneDone_whole_word(st, len, s) ==
    [bytes_read   |-> st.bytes_read + 4,
     nums_decoded |-> st.nums_decoded + 1,
     sink         |-> s,
     panic        |-> s.panic]

\* st = [bytes_read, nums_decoded, sink, panic]; s is the sink after on_number
LaneDone(st, len, s) ==
    [bytes_read   |-> st.bytes_read + len,
     nums_decoded |-> st.nums_decoded + 1,
     sink         |-> s,
     panic        |-> s.panic]

\* a delivery that reports every lane at the position of its quad's first number
LaneDeliver_quad_position(st, len, d) ==
    IF d.panic THEN [st EXCEPT !.panic = TRUE]
    ELSE LaneDone(st, len, on_number(st.sink, d.num, 4 * (st.nums_decoded \div 4)))

\* sink.on_number(decode_num_scalar(len, &encoded_nums[bytes_read..]), nums_decoded),
\* d the result of decode_num_scalar
LaneDeliver(st, len, d) ==
    IF d.panic THEN [st EXCEPT !.panic = TRUE]
    ELSE LaneDone(st, len, on_number(st.sink, d.num, st.nums_decoded))

\* the numbers of one control byte, lanes first .. last - 1, each decoded and
\* handed to the sink in turn
RECURSIVE DecodeLanes(_, _, _, _, _)
DecodeLanes(encoded_nums, st, lens, lane, last) ==
    IF lane >= last \/ st.panic THEN st
    ELSE DecodeLanes(encoded_nums,
            LaneDeliver(st, lens[lane],
                decode_num_at(lens[lane], encoded_nums, st.bytes_read)),
            lens, lane + 1, last)

RECURSIVE ScalarDecodeLoop(_, _, _, _, _)
ScalarDecodeLoop(control_bytes, encoded_nums, st, q, control_byte_limit) ==
    IF q > control_byte_limit \/ st.panic THEN st
    ELSE ScalarDecodeLoop(control_bytes, encoded_nums,
            DecodeLanes(encoded_nums, st,
                        DECODE_LENGTH_PER_NUM_TABLE(control_bytes[q]), 0, 4),
            q + 1, control_byte_limit)

\* a result that reports the running count, nums_already_decoded included
QuadsResult_running_count(st, nums_already_decoded) ==
    [nums_decoded |-> st.nums_decoded,
     bytes_read   |-> st.bytes_read,
     sink         |-> st.sink,
     panic        |-> st.panic]

\* (nums_decoded - nums_already_decoded, bytes_read)
QuadsResult(st, nums_already_decoded) ==
    [nums_decoded |-> st.nums_decoded - nums_already_decoded,
     bytes_read   |-> st.bytes_read,
     sink         |-> st.sink,
     panic        |-> st.panic]

\* Scalar::decode_quads(control_bytes, encoded_nums, control_bytes_to_decode,
\*                      nums_already_decoded, sink) -> (nums_decoded, bytes_read)
Scalar_decode_quads(control_bytes, encoded_nums, control_bytes_to_decode, nums_already_decoded, sink) ==
    QuadsResult(
        ScalarDecodeLoop(control_bytes, encoded_nums,
            [bytes_read |-> 0, nums_decoded |-> nums_already_decoded,
             sink |-> sink, panic |-> FALSE],
            1, Min(Len(control_bytes), control_bytes_to_decode)),
        nums_already_decoded)

-----------------------------------------------------------------------------
(* decode/neon.rs: impl Decoder for NeonDecoder *)

\* DECODE_SHUFFLE_TABLE[control_byte]: for each of the 16 bytes of the decoded quad
\* the index of the encoded byte it comes from: byte j of lane i is encoded byte
\* start_i + j if j < len_i, and 255 (out of range, so 0) otherwise
DecodeShuffleFrom(lens, st) ==
    [p \in 1..16 |->
        IF (p - 1) % 4 < lens[(p - 1) \div 4]
        THEN st[(p - 1) \div 4 + 1] + ((p - 1) % 4)
        ELSE 255]

DECODE_SHUFFLE_TABLE(c) ==
    DecodeShuffleFrom(DECODE_LENGTH_PER_NUM_TABLE(c),
                      ShuffleStarts(DECODE_LENGTH_PER_NUM_TABLE(c)))

\* the uint8x16_t decompressed seen as four u32
QuadNums(bytes) ==
    <<from_le_bytes(SubSeq(bytes, 1, 4)), from_le_bytes(SubSeq(bytes, 5, 8)),
      from_le_bytes(SubSeq(bytes, 9, 12)), from_le_bytes(SubSeq(bytes, 13, 16))>>

\* an iteration that advances by the whole 16-byte register it loaded
NeonQuadDone_whole_register(st, length, s) ==
    [bytes_read   |-> st.bytes_read + 16,
     nums_decoded |-> st.nums_decoded + 4,
     sink         |-> s,
     panic        |-> s.panic]

\* bytes_read += length; nums_decoded += 4; s is the sink after on_quad
NeonQuadDone(st, length, s) ==
    [bytes_read   |-> st.bytes_read + length,
     nums_decoded |-> st.nums_decoded + 4,
     sink         |-> s,
     panic        |-> s.panic]

\* one iteration: next_4 = &encoded_nums[bytes_read..(bytes_read + 16)] panics if
\* encoded_nums is shorter; sink.on_quad(vqtbl1q_u8(data, mask), nums_decoded)
NeonDecodeQuad(control_byte, encoded_nums, st) ==
    IF st.bytes_read + 16 > Len(encoded_nums) THEN [st EXCEPT !.panic = TRUE]
    ELSE NeonQuadDone(st, DECODE_LENGTH_PER_QUAD_TABLE(control_byte),
            on_quad(st.sink,
                QuadNums(vqtbl1q_u8(
                    SubSeq(encoded_nums, st.bytes_read + 1, st.bytes_read + 16),
                    DECODE_SHUFFLE_TABLE(control_byte))),
                st.nums_decoded))

RECURSIVE NeonDecodeLoop(_, _, _, _, _)
NeonDecodeLoop(control_bytes, encoded_nums, st, q, control_byte_limit) ==
    IF q > control_byte_limit \/ st.panic THEN st
    ELSE NeonDecodeLoop(control_bytes, encoded_nums,
            NeonDecodeQuad(control_bytes[q], encoded_nums, st),
            q + 1, control_byte_limit)

\* a limit without the three control bytes kept back
NeonControlByteLimit_no_margin(control_bytes, control_bytes_to_decode) ==
    Min(control_bytes_to_decode, Len(control_bytes))

\* cmp::min(control_bytes_to_decode, control_bytes.len().saturating_sub(3))
NeonControlByteLimit(control_bytes, control_bytes_to_decode) ==
    Min(control_bytes_to_decode, Max(0, Len(control_bytes) - 3))

\* NeonDecoder::decode_quads(control_bytes, encoded_nums, control_bytes_to_decode,
\*                           nums_already_decoded, sink) -> (nums_decoded, bytes_read)
Neon_decode_quads(control_bytes, encoded_nums, control_bytes_to_decode, nums_already_decoded, sink) ==
    QuadsResult(
        NeonDecodeLoop(control_bytes, encoded_nums,
            [bytes_read |-> 0, nums_decoded |-> nums_already_decoded,
             sink |-> sink, panic |-> FALSE],
            1, NeonControlByteLimit(control_bytes, control_bytes_to_decode)),
        nums_already_decoded)

-----------------------------------------------------------------------------
(* decode/mod.rs: the Decoder implementations *)

Decoders == {"Scalar"}
KernelDecoders == {"Scalar", "Neon"}

D_decode_quads(D, control_bytes, encoded_nums, max_control_bytes_to_decode, nums_already_decoded, sink) ==
    IF D = "Scalar"
    THEN Scalar_decode_quads(control_bytes, encoded_nums, max_control_bytes_to_decode,
                             nums_already_decoded, sink)
    ELSE Neon_decode_quads(control_bytes, encoded_nums, max_control_bytes_to_decode,
                           nums_already_decoded, sink)

-----------------------------------------------------------------------------
(* decode/cursor.rs: DecodeCursor.  State (control_bytes, value_bytes,          *)
(* total_count, nums_decoded_so_far, value_offset); the control byte a call     *)
(* starts at is the one holding number nums_decoded_so_far.                     *)

NoCursor ==
    [control_bytes |-> <<>>, value_bytes |-> <<>>, total_count |-> 0,
     nums_decoded_so_far |-> 0, value_offset |-> 0]

\* DecodeCursor::new(encoded, count): the first control_bytes_len bytes are the
\* control region, the rest the value region
DecodeCursor_new(encoded, count) ==
    IF encoded_shape(count).control_bytes_len > Len(encoded)
    THEN [cursor |-> NoCursor, panic |-> TRUE]
    ELSE [cursor |-> [control_bytes |-> Take(encoded, encoded_shape(count).control_bytes_len),
                      value_bytes   |-> Drop(encoded, encoded_shape(count).control_bytes_len),
                      total_count   |-> count,
                      nums_decoded_so_far |-> 0,
                      value_offset  |-> 0],
          panic  |-> FALSE]

\* input_consumed(): control_bytes_len + value_offset
input_consumed(cur) ==
    encoded_shape(cur.total_count).control_bytes_len + cur.value_offset

CompleteQuads(cur) == encoded_shape(cur.total_count).complete_control_bytes_len

\* the complete control bytes a kernel can be given: those from the cursor's position
\* on when it stands at the start of a quad; a kernel takes only control bytes with
\* all 4 of their numbers, so inside a quad there is none to give
ControlBytesAhead(cur) ==
    IF cur.nums_decoded_so_far % 4 = 0
    THEN SubSeq(cur.control_bytes, cur.nums_decoded_so_far \div 4 + 1, CompleteQuads(cur))
    ELSE <<>>

\* the encoded length of numbers first .. last - 1 (0-based), lane by lane
RECURSIVE LaneSum(_, _, _)
LaneSum(control_bytes, first, last) ==
    IF first >= last THEN 0
    ELSE DECODE_LENGTH_PER_NUM_TABLE(control_bytes[first \div 4 + 1])[first % 4]
         + LaneSum(control_bytes, first + 1, last)

\* the encoded length of numbers from .. to - 1: LENGTH_PER_QUAD for each control
\* byte skipped whole (first_cb .. last_cb - 1), per-lane sums for the lanes of a
\* partly skipped one
SkippedLen(control_bytes, from, to, first_cb, last_cb) ==
    IF first_cb >= last_cb
    THEN LaneSum(control_bytes, from, to)
    ELSE LaneSum(control_bytes, from, 4 * first_cb)
         + cumulative_encoded_len(SubSeq(control_bytes, first_cb + 1, last_cb))
         + LaneSum(control_bytes, 4 * last_cb, to)

\* skip(n): advance nums_decoded_so_far by n and value_offset by the encoded
\* length of the numbers skipped; panics if n exceeds the remaining count
skip(cur, n) ==
    IF n > cur.total_count - cur.nums_decoded_so_far
    THEN [cursor |-> cur, panic |-> TRUE]
    ELSE [cursor |-> [cur EXCEPT
                        !.nums_decoded_so_far = @ + n,
                        !.value_offset = @ + SkippedLen(cur.control_bytes,
                            cur.nums_decoded_so_far, cur.nums_decoded_so_far + n,
                            (cur.nums_decoded_so_far + 3) \div 4,
                            (cur.nums_decoded_so_far + n) \div 4)],
          panic  |-> FALSE]

SinkResult(c, s, n, p) == [cursor |-> c, sink |-> s, ret |-> n, panic |-> p]

\* the cursor after decode_quads returned r
Advance(cur, r) ==
    [cur EXCEPT !.nums_decoded_so_far = @ + r.nums_decoded,
                !.value_offset = @ + r.bytes_read]

\* the end of decode_sink, l the result of decoding the final partial quad
SinkLast(cur, done, l) ==
    SinkResult([cur EXCEPT !.nums_decoded_so_far = @ + (l.nums_decoded - done),
                           !.value_offset = l.bytes_read],
               l.sink, l.nums_decoded, l.panic)

\* the final partial quad, decoded if the cursor is at it and max leaves room for
\* what remains of it; done numbers were delivered by this call so far
SinkPartial(cur, max, done, r2) ==
    IF r2.panic THEN SinkResult(cur, r2.sink, done, TRUE)
    ELSE IF /\ cur.nums_decoded_so_far >= 4 * CompleteQuads(cur)
            /\ cur.total_count > cur.nums_decoded_so_far
            /\ max - done >= cur.total_count - cur.nums_decoded_so_far
    THEN SinkLast(cur, done,
            DecodeLanes(cur.value_bytes,
                [bytes_read |-> cur.value_offset, nums_decoded |-> done,
                 sink |-> r2.sink, panic |-> FALSE],
                DECODE_LENGTH_PER_NUM_TABLE(cur.control_bytes[CompleteQuads(cur) + 1]),
                cur.nums_decoded_so_far - 4 * CompleteQuads(cur),
                cur.total_count - 4 * CompleteQuads(cur)))
    ELSE SinkResult(cur, r2.sink, done, FALSE)

SinkScalarDone(cur, max, done1, r2) ==
    SinkPartial(Advance(cur, r2), max, done1 + r2.nums_decoded, r2)

\* the scalar kernel over the complete quads the kernel D left; cur is the cursor
\* after D::decode_quads returned r1
SinkScalar(cur, max, r1) ==
    IF r1.panic THEN SinkResult(cur, r1.sink, r1.nums_decoded, TRUE)
    ELSE SinkScalarDone(cur, max, r1.nums_decoded,
            Scalar_decode_quads(
                ControlBytesAhead(cur),
                Drop(cur.value_bytes, cur.value_offset),
                (max - r1.nums_decoded) \div 4, r1.nums_decoded, r1.sink))

SinkKernelDone(cur, max, r1) == SinkScalar(Advance(cur, r1), max, r1)

\* decode_sink::<D, S>(sink, max): the kernel D over the complete quads, the scalar
\* kernel over the complete quads D left, then the final partial quad.  Positions
\* handed to the sink count from the start of this call.
decode_sink(D, cur, sink, max) ==
    IF cur.value_offset > Len(cur.value_bytes)
    THEN SinkResult(cur, sink, 0, TRUE)
    ELSE SinkKernelDone(cur, max,
            D_decode_quads(D, ControlBytesAhead(cur),
                Drop(cur.value_bytes, cur.value_offset), max \div 4, 0, sink))

\* decode_slice::<D>(out): decode_sink into a SliceDecodeSink over out, max = out.len()
decode_slice(D, cur, out) ==
    decode_sink(D, cur, SliceDecodeSink_new(out), Len(out))

-----------------------------------------------------------------------------
(* decode/mod.rs: decode *)

DecodeResult(r, o, c, p) == [ret |-> r, output |-> o, cursor |-> c, panic |-> p]

\* a decode without the assertion on the count decode_slice returns
DecodeDone_without_assert(count, r) ==
    DecodeResult(input_consumed(r.cursor), r.sink.output, r.cursor, r.panic)

\* assert_eq!(count, cursor.decode_slice::<D>(output)); cursor.input_consumed()
DecodeDone(count, r) ==
    DecodeResult(input_consumed(r.cursor), r.sink.output, r.cursor,
                 r.panic \/ count # r.ret)

DecodeWith(D, count, out, c) ==
    IF c.panic THEN DecodeResult(0, out, c.cursor, TRUE)
    ELSE DecodeDone(count, decode_slice(D, c.cursor, out))

\* decode::<D>(input, count, output) -> usize
decode(D, inp, count, out) == DecodeWith(D, count, out, DecodeCursor_new(inp, count))

-----------------------------------------------------------------------------
(* The inputs *)

\* the values every short input is built from: 0, 0x00030000, u32::MAX (1, 3 and
\* 4 bytes); the patterns below add the other lengths
Vals == {U(0, 0), U(3, 0), U32_MAX}

\* 0, 1, 256, 65536, 1 << 24, u32::MAX, 0xFFFF
PatVals == <<U(0, 0), U(0, 1), U(0, 256), U(1, 0), U(256, 0), U32_MAX, U(0, 65535)>>
Strides == {0, 1, 3}
Pattern(n, a, b) ==
    [i \in 1..n |-> PatVals[((a + b * (i - 1)) % Len(PatVals)) + 1]]

Inputs ==
    (UNION {[1..n -> Vals] : n \in 0..MaxLen})
    \cup {Pattern(n, a, b) : n \in 0..MaxPatLen, a \in 0..(Len(PatVals) - 1),
                             b \in Strides}

\* what the output buffer holds before encode
FillBytes == {0, 255}
\* what a lane read past the end of the input may hold
JunkVals == {U(0, 0), U32_MAX}
\* what the decoded slice holds before decode
Sentinel == U(0, 54321)

-----------------------------------------------------------------------------
(* The state machine *)

\* no call made yet
NoCall == [op |-> "none"]

Init ==
    /\ input \in Inputs
    /\ \E slack \in (0 - MaxSlack)..MaxSlack, fill \in FillBytes :
          output = Fill(Max(0, 5 * Len(input) + slack), fill)
    /\ encoder = "none"
    /\ pc = "start"
    /\ encoded_len = 0
    /\ ret = 0
    /\ ub = FALSE
    /\ assert_ok = TRUE
    /\ cursor = NoCursor
    /\ decoded = <<>>
    /\ stream = <<>>
    /\ ops = <<>>
    /\ call = NoCall

\* encode::<E>(&input, &mut output)
EncodeReturns(E, r) ==
    /\ output' = r.output
    /\ encoded_len' = r.ret
    /\ ub' = r.ub
    /\ assert_ok' = r.assert_ok
    /\ pc' = IF r.panic THEN "panicked" ELSE "encoded"
    /\ encoder' = E
    /\ call' = [op |-> "encode", kernel |-> E, writes |-> r.writes]
    /\ UNCHANGED <<input, ret, cursor, decoded, stream, ops>>

Encode(E, junk) ==
    /\ pc = "start"
    /\ EncodeReturns(E, encode(E, input, output, junk))

\* the encoded bytes handed to decode: output[0..encoded_len] or the whole buffer
EncodedSlices == {Take(output, encoded_len), output}

Remaining == Max(0, cursor.total_count - cursor.nums_decoded_so_far)

\* decode::<D>(encoded, input.len(), &mut decoded), on the bytes of encode::<Scalar>
DecodeReturns(out_len, r) ==
    /\ decoded' = r.output
    /\ ret' = r.ret
    /\ cursor' = r.cursor
    /\ pc' = IF r.panic THEN "panicked" ELSE "decoded"
    /\ ops' = Append(ops, [op |-> "decode", n |-> out_len])
    /\ UNCHANGED call
    /\ UNCHANGED <<input, encoder, output, encoded_len, ub, assert_ok, stream>>

Decode(D, encoded, out_len) ==
    /\ pc = "encoded"
    /\ encoder = "Scalar"
    /\ DecodeReturns(out_len, decode(D, encoded, Len(input), Fill(out_len, Sentinel)))

\* DecodeCursor::new(&output[0..encoded_len], input.len()), on the bytes of
\* encode::<Scalar>; from here on output is the slice the cursor borrows
NewCursorReturns(c) ==
    /\ cursor' = c.cursor
    /\ pc' = IF c.panic THEN "panicked" ELSE "cursor"
    /\ output' = Take(output, encoded_len)
    /\ UNCHANGED call
    /\ UNCHANGED <<input, encoder, encoded_len, ret, ub, assert_ok, decoded, stream, ops>>

NewCursor ==
    /\ pc = "encoded"
    /\ encoder = "Scalar"
    /\ NewCursorReturns(DecodeCursor_new(Take(output, encoded_len), Len(input)))

\* cursor.skip(n)
SkipReturns(n, r) ==
    /\ cursor' = r.cursor
    /\ pc' = IF r.panic THEN "panicked" ELSE "cursor"
    /\ ops' = Append(ops, [op |-> "skip", n |-> n])
    /\ UNCHANGED call
    /\ UNCHANGED <<input, encoder, output, encoded_len, ret, ub, assert_ok, decoded, stream>>

Skip(n) ==
    /\ pc = "cursor"
    /\ Len(ops) < MaxOps
    /\ SkipReturns(n, skip(cursor, n))

\* cursor.decode_slice::<D>(&mut decoded[..out_len])
DecodeSliceReturns(out_len, r) ==
    /\ cursor' = r.cursor
    /\ decoded' = r.sink.output
    /\ ret' = r.ret
    /\ pc' = IF r.panic THEN "panicked" ELSE "cursor"
    /\ ops' = Append(ops, [op |-> "decode_slice", n |-> out_len])
    /\ UNCHANGED call
    /\ UNCHANGED <<input, encoder, output, encoded_len, ub, assert_ok, stream>>

DecodeSlice(D, out_len) ==
    /\ pc = "cursor"
    /\ Len(ops) < MaxOps
    /\ DecodeSliceReturns(out_len, decode_slice(D, cursor, Fill(out_len, Sentinel)))

\* cursor.decode_sink::<D, _>(&mut sink, max)
DecodeSinkReturns(max, r) ==
    /\ cursor' = r.cursor
    /\ stream' = stream \o r.sink.calls
    /\ ret' = r.ret
    /\ pc' = IF r.panic THEN "panicked" ELSE "cursor"
    /\ ops' = Append(ops, [op |-> "decode_sink", n |-> max])
    /\ UNCHANGED call
    /\ UNCHANGED <<input, encoder, output, encoded_len, ub, assert_ok, decoded>>

DecodeSink(D, max) ==
    /\ pc = "cursor"
    /\ Len(ops) < MaxOps
    /\ DecodeSinkReturns(max, decode_sink(D, cursor, CallerSink, max))

Next ==
    \/ \E E \in Encoders, junk \in JunkVals : Encode(E, junk)
    \/ \E D \in Decoders, encoded \in EncodedSlices,
          out_len \in {n \in (Len(input) - 1)..(Len(input) + 1) : n >= 0} :
            Decode(D, encoded, out_len)
    \/ NewCursor
    \/ \E n \in 0..(Remaining + 1) : Skip(n)
    \/ \E D \in Decoders, out_len \in {Remaining, cursor.total_count} :
            DecodeSlice(D, out_len)
    \/ \E D \in Decoders, max \in 0..cursor.total_count : DecodeSink(D, max)

Spec == Init /\ [][Next]_vars

-----------------------------------------------------------------------------
(* The kernels called directly, as the tests of encode/neon.rs and of         *)
(* decode/neon.rs call them                                                    *)

\* the numbers of the test of decode/neon.rs: i * 100 for i in 0..64
Hundreds == [i \in 1..64 |-> U(0, (i - 1) * 100)]
\* the numbers of the test of encode/neon.rs: 1 << i for i in 0..32
PowersOfTwo == [i \in 1..32 |-> IF i <= 16 THEN U(0, 2 ^ (i - 1)) ELSE U(2 ^ (i - 17), 0)]

KernelInputs ==
    {Pattern(4 * n, a, b) : n \in 0..MaxQuads, a \in 0..(Len(PatVals) - 1), b \in Strides}
    \cup {Hundreds, PowersOfTwo}

KInit ==
    /\ input \in KernelInputs
    /\ \E fill \in FillBytes : output = Fill(5 * Len(input), fill)
    /\ encoder = "none"
    /\ pc = "start"
    /\ encoded_len = 0
    /\ ret = 0
    /\ ub = FALSE
    /\ assert_ok = TRUE
    /\ cursor = NoCursor
    /\ decoded = <<>>
    /\ stream = <<>>
    /\ ops = <<>>
    /\ call = NoCall

\* E::encode_quads(&input[0..4 * n], control_bytes, num_bytes) with
\* (control_bytes, num_bytes) = output.split_at_mut(n)
EncodeQuadsReturns(E, n, r) ==
    /\ call' = [op |-> "encode_quads", kernel |-> E, n |-> n, before |-> output, r |-> r]
    /\ output' = r.control_bytes \o r.encoded_nums
    /\ ub' = r.ub
    /\ pc' = IF r.panic THEN "panicked" ELSE "returned"
    /\ UNCHANGED <<input, encoder, encoded_len, ret, assert_ok, cursor, decoded, stream, ops>>

EncodeQuads(E, control_bytes_len, junk) ==
    /\ pc = "start"
    /\ EncodeQuadsReturns(E, control_bytes_len,
            E_encode_quads(E, Take(input, 4 * control_bytes_len),
                Take(output, control_bytes_len), Drop(output, control_bytes_len), junk))

\* the control bytes of the complete quads of the encoding in output, and the
\* slices handed to decode_quads as encoded_nums: their value bytes alone, or all
\* of the buffer after the control bytes
CompleteControlBytes == Take(output, Len(input) \div 4)
\* the value bytes of the encoding without their last cut bytes: a truncated stream
TruncatedRegion(cut) ==
    SubSeq(output, (Len(input) + 3) \div 4 + 1, encoded_len - cut)
ValueRegions ==
    {SubSeq(output, (Len(input) + 3) \div 4 + 1, encoded_len),
     Drop(output, (Len(input) + 3) \div 4)}

\* D::decode_quads(control_bytes, encoded_nums, m, nad, &mut SliceDecodeSink::new(
\* &mut decoded)) on the bytes of encode::<Scalar>
DecodeQuadsReturns(D, m, nad, encoded_nums, r) ==
    /\ call' = [op |-> "decode_quads", kernel |-> D, n |-> m, nad |-> nad,
                encoded_nums |-> encoded_nums, r |-> r]
    /\ decoded' = r.sink.output
    /\ pc' = IF r.panic THEN "panicked" ELSE "returned"
    /\ UNCHANGED <<input, encoder, output, encoded_len, ret, ub, assert_ok, cursor, stream, ops>>

DecodeQuads(D, m, nad, encoded_nums) ==
    /\ pc = "encoded"
    /\ encoder = "Scalar"
    /\ DecodeQuadsReturns(D, m, nad, encoded_nums,
            D_decode_quads(D, CompleteControlBytes, encoded_nums, m, nad,
                SliceDecodeSink_new(Fill(Len(input) + nad, Sentinel))))

KNext ==
    \/ \E E \in Encoders, control_bytes_len \in 0..(Len(input) \div 4), junk \in JunkVals :
            EncodeQuads(E, control_bytes_len, junk)
    \/ \E E \in DriverEncoders, junk \in JunkVals : Encode(E, junk)
    \/ \E D \in KernelDecoders, m \in 0..(Len(input) \div 4 + 1), nad \in {0, 4},
          encoded_nums \in ValueRegions :
            DecodeQuads(D, m, nad, encoded_nums)
    \/ \E m \in 0..(Len(input) \div 4 + 1), cut \in 1..MaxCut :
            /\ cut <= encoded_len - (Len(input) + 3) \div 4
            /\ DecodeQuads("Scalar", m, 0, TruncatedRegion(cut))

KernelSpec == KInit /\ [][KNext]_vars

-----------------------------------------------------------------------------
(* The length arithmetic of NeonEncoder::encode_quads on one quad *)

\* the numbers at the edges of the four byte lengths
ArithVals ==
    {U(0, 0), U(0, 1), U(0, 255), U(0, 256), U(0, 65535), U(1, 0), U(255, 65535),
     U(256, 0), U32_MAX}

AInit ==
    /\ input \in [1..4 -> ArithVals]
    /\ output = <<>>
    /\ encoder = "none"
    /\ pc = "start"
    /\ encoded_len = 0
    /\ ret = 0
    /\ ub = FALSE
    /\ assert_ok = TRUE
    /\ cursor = NoCursor
    /\ decoded = <<>>
    /\ stream = <<>>
    /\ ops = <<>>
    /\ call = NoCall

\* from the load of the quad to (code, length): the lane codes gathered into
\* mulshift, its two products with AGGREGATORS = [CONCAT, SUM], and
\* (code_and_length[0] >> 24, 4 + (code_and_length[1] >> 24))
CodeAndLength ==
    /\ pc = "start"
    /\ call' = [op |-> "code_and_length",
                mulshift |-> NeonMulshift(input),
                code_and_length |-> <<MulU32(NeonMulshift(input), CONCAT),
                                      MulU32(NeonMulshift(input), SUM)>>,
                code |-> NeonCode(input),
                length |-> NeonLength(input)]
    /\ pc' = "returned"
    /\ UNCHANGED <<input, encoder, output, encoded_len, ret, ub, assert_ok, cursor, decoded, stream, ops>>

ANext == CodeAndLength

ArithSpec == AInit /\ [][ANext]_vars

-----------------------------------------------------------------------------
(* Properties *)

\* what the format prescribes for one number, stated on its value: the number of
\* its significant bytes (at least one), and those bytes, least significant first
SignificantBytes(num) ==
    IF num.hi >= 256 THEN 4
    ELSE IF num.hi > 0 THEN 3
    ELSE IF num.lo >= 256 THEN 2
    ELSE 1

ByteAt(num, i) ==
    CASE i = 1 -> num.lo % 256
      [] i = 2 -> num.lo \div 256
      [] i = 3 -> num.hi % 256
      [] OTHER -> num.hi \div 256

ValueBytes(num) == [i \in 1..SignificantBytes(num) |-> ByteAt(num, i)]

RECURSIVE SumSignificant(_)
SumSignificant(nums) ==
    IF nums = <<>> THEN 0
    ELSE SignificantBytes(Head(nums)) + SumSignificant(Tail(nums))

RECURSIVE ConcatValueBytes(_)
ConcatValueBytes(nums) ==
    IF nums = <<>> THEN <<>>
    ELSE ValueBytes(Head(nums)) \o ConcatValueBytes(Tail(nums))

\* the control byte of a partial quad holding nums: lane i holds len_i - 1
RECURSIVE PartialControlByte(_)
PartialControlByte(nums) ==
    IF nums = <<>> THEN 0
    ELSE (SignificantBytes(Head(nums)) - 1) + 4 * PartialControlByte(Tail(nums))

\* the numbers of the complete quads of input, and those of its partial quad
CompletePart == Take(input, 4 * (Len(input) \div 4))
LeftoverPart == Drop(input, 4 * (Len(input) \div 4))

\* the one call made after encode was decode, into an output of at least
\* input.len() numbers
DecodeCalled ==
    /\ Len(ops) = 1
    /\ ops[1].op = "decode"
    /\ ops[1].n >= Len(input)

\* C1: encoding xs with encode::<Scalar> into a buffer of 5 * len(xs) bytes and
\* decoding the result with decode::<Scalar>(encoded, len(xs), out) returns
\* normally and leaves out[0..len(xs)] equal to xs.
C1_RoundTrip ==
    (/\ encoder = "Scalar"
     /\ DecodeCalled
     /\ Len(output) = 5 * Len(input))
        => (pc = "decoded" /\ Take(decoded, Len(input)) = input)

C1_Witness ==
    /\ encoder = "Scalar"
    /\ DecodeCalled
    /\ Len(output) = 5 * Len(input)
    /\ pc = "decoded"
    /\ Len(input) > 4
    /\ Len(input) % 4 # 0
    /\ \E i \in 1..Len(input) : SignificantBytes(input[i]) = 3

\* s is what encode::<Scalar> returns for the same input and a buffer of the same
\* size: the same count and the same encoded bytes
SameEncoding(s) ==
    /\ ~s.panic
    /\ encoded_len = s.ret
    /\ Take(output, encoded_len) = Take(s.output, s.ret)

\* C2: for every input xs, encode::<NeonEncoder> and encode::<Scalar> return the
\* same count and write the same encoded bytes.
C2_BackendsAgree ==
    (pc = "encoded" /\ encoder = "Neon")
        => SameEncoding(encode("Scalar", input, Fill(Len(output), 0), U(0, 0)))

\* C3: for every non-empty input xs, the value returned by encode::<Scalar> is
\* ceil(len(xs) / 4) plus the sum over the numbers of xs of their significant
\* bytes (at least one each); the unused lanes of a partial quad add nothing.
C3_LengthConsistency ==
    (pc = "encoded" /\ encoder = "Scalar" /\ input # <<>>)
        => encoded_len = (Len(input) + 3) \div 4 + SumSignificant(input)

C3_Witness ==
    /\ pc = "encoded"
    /\ encoder = "Scalar"
    /\ Len(input) > 4
    /\ Len(input) % 4 = 1
    /\ \E i \in 1..Len(input) : SignificantBytes(input[i]) = 2
    /\ encoded_len = (Len(input) + 3) \div 4 + SumSignificant(input)

\* C4: when len(xs) mod 4 = r > 0, the last control byte written by
\* encode::<Scalar> holds len_i - 1 in lane i for the r leftover numbers and zero
\* in every lane >= r, and exactly the value bytes of those r numbers follow the
\* value bytes of the complete quads, up to the returned length.
C4_PartialFinalQuad ==
    (pc = "encoded" /\ encoder = "Scalar" /\ Len(input) % 4 > 0)
        => /\ output[(Len(input) + 3) \div 4] = PartialControlByte(LeftoverPart)
           /\ encoded_len = (Len(input) + 3) \div 4 + SumSignificant(CompletePart)
                                + SumSignificant(LeftoverPart)
           /\ SubSeq(output,
                     (Len(input) + 3) \div 4 + SumSignificant(CompletePart) + 1,
                     encoded_len)
                 = ConcatValueBytes(LeftoverPart)

C4_Witness ==
    /\ pc = "encoded"
    /\ encoder = "Scalar"
    /\ Len(input) > 4
    /\ Len(input) % 4 = 2
    /\ SignificantBytes(input[Len(input)]) > 1
    /\ output[(Len(input) + 3) \div 4] = PartialControlByte(LeftoverPart)

\* the input of the worked example: [0, 1, 256, 65536]
ExampleQuad == <<U(0, 0), U(0, 1), U(0, 256), U(1, 0)>>

\* C5 as stated: xs = [0, 1, 256, 65536] encodes as the control byte 0xA0 followed
\* by the value bytes 00 01 00 01 00 00 01, 8 bytes in total.
C5_Stated ==
    (pc = "encoded" /\ encoder = "Scalar" /\ input = ExampleQuad)
        => /\ encoded_len = 8
           /\ Take(output, 8) = <<160, 0, 1, 0, 1, 0, 0, 1>>

\* C5: xs = [0, 1, 256, 65536] encodes as the control byte 0x90
\* (0 | 0 << 2 | 1 << 4 | 2 << 6) followed by the value bytes
\* 00 01 00 01 00 00 01, 8 bytes in total.
C5_WorkedExample ==
    (pc = "encoded" /\ encoder = "Scalar" /\ input = ExampleQuad)
        => /\ encoded_len = 8
           /\ Take(output, 8) = <<144, 0, 1, 0, 1, 0, 0, 1>>

C5_Witness ==
    /\ pc = "encoded"
    /\ encoder = "Scalar"
    /\ input = ExampleQuad
    /\ encoded_len = 8

\* C6: encode on an empty input returns 0 and leaves every byte of the output
\* buffer unchanged, for either backend and any output buffer, the empty one
\* included.
C6_EmptyInput ==
    [][(pc = "start" /\ input = <<>>)
          => (pc' = "encoded" /\ encoded_len' = 0 /\ output' = output /\ ~ub')]_vars

C6_Witness ==
    /\ pc = "encoded"
    /\ input = <<>>
    /\ encoder = "Neon"
    /\ output # <<>>
    /\ encoded_len = 0

\* C7: for a non-empty input, encode::<Scalar> with a buffer of 5 * len bytes (or
\* more) returns without panicking a value of at most 5 * len and touches no byte
\* at index 5 * len or beyond.
C7_WorstCaseSize ==
    [][(/\ pc = "start"
        /\ encoder' = "Scalar"
        /\ Len(input) >= 1
        /\ Len(output) >= 5 * Len(input))
          => (/\ pc' = "encoded"
              /\ encoded_len' <= 5 * Len(input)
              /\ Len(output') = Len(output)
              /\ \A j \in (5 * Len(input) + 1)..Len(output) : output'[j] = output[j])]_vars

C7_Witness ==
    /\ pc = "encoded"
    /\ encoder = "Scalar"
    /\ Len(input) >= 1
    /\ Len(output) = 5 * Len(input)
    /\ encoded_len = 5 * Len(input)

\* C8: if encode returned n, decode over the encoded bytes with count = len(xs)
\* returns n: the bytes consumed are the control bytes plus the value bytes read.
C8_CursorAccounting ==
    (encoder = "Scalar" /\ DecodeCalled)
        => (pc = "decoded" /\ ret = encoded_len)

C8_Witness ==
    /\ encoder = "Scalar"
    /\ DecodeCalled
    /\ pc = "decoded"
    /\ Len(cursor.control_bytes) + Len(cursor.value_bytes) = encoded_len
    /\ encoded_len < Len(output)
    /\ Len(input) % 4 = 3
    /\ ret = encoded_len

\* on a fresh cursor, skip(n) with n <= count, then decode_slice into count - n slots
SkipThenDecodeSlice ==
    /\ encoder = "Scalar"
    /\ Len(ops) = 2
    /\ ops[1].op = "skip"
    /\ ops[2].op = "decode_slice"
    /\ ops[1].n <= Len(input)
    /\ ops[2].n = Len(input) - ops[1].n

SuffixDecoded ==
    /\ pc = "cursor"
    /\ decoded = SubSeq(input, ops[1].n + 1, Len(input))

TwoSinkCalls ==
    /\ encoder = "Scalar"
    /\ Len(ops) = 2
    /\ ops[1].op = "decode_sink"
    /\ ops[2].op = "decode_sink"
    /\ ops[1].n <= Len(input)
    /\ ops[2].n = Len(input) - ops[1].n

Numbers(calls) == [i \in 1..Len(calls) |-> calls[i][1]]

\* what one decode_sink call with max = count hands to the sink on a fresh cursor
SingleCallNumbers ==
    Numbers(decode_sink("Scalar", DecodeCursor_new(output, Len(input)).cursor,
                        CallerSink, Len(input)).sink.calls)

SameAsSingleCall ==
    /\ pc = "cursor"
    /\ Numbers(stream) = SingleCallNumbers
    /\ Len(stream) = Len(input)

\* C10 as stated: for every k with 0 <= k <= count, decode_sink with max = k
\* followed by decode_sink with max = count - k hands the sink the same numbers in
\* the same order as one call with max = count, count numbers in all.
C10_Stated == TwoSinkCalls => SameAsSingleCall

\* C10: for every k with 0 <= k <= count that is a multiple of 4 or equals count,
\* decode_sink with max = k followed by decode_sink with max = count - k hands the
\* sink the same numbers in the same order as one call with max = count, count
\* numbers in all.
C10_Resumability ==
    (TwoSinkCalls /\ (ops[1].n % 4 = 0 \/ ops[1].n = Len(input))) => SameAsSingleCall

C10_Witness ==
    /\ TwoSinkCalls
    /\ ops[1].n = 4
    /\ Len(input) > 4
    /\ Len(input) % 4 # 0
    /\ SameAsSingleCall

\* the cursor's counters are within their ranges, and an exhausted cursor has
\* consumed the whole value region
CursorInRange ==
    /\ cursor.nums_decoded_so_far <= cursor.total_count
    /\ cursor.value_offset <= Len(cursor.value_bytes)
    /\ (cursor.nums_decoded_so_far = cursor.total_count
            => cursor.value_offset = encoded_len - Len(cursor.control_bytes))

DecodeCalledShort ==
    /\ encoder = "Scalar"
    /\ Len(ops) = 1
    /\ ops[1].op = "decode"
    /\ ops[1].n < Len(input)

\* C12: decode(input, count, output) with output.len() < count never returns a
\* byte count: it panics (the assertion on the count decode_slice returns, or an
\* earlier bounds check), and output keeps its length: nothing is written outside
\* it.
C12_OutputTooSmall ==
    DecodeCalledShort => (pc = "panicked" /\ Len(decoded) = ops[1].n)

C12_Witness ==
    /\ DecodeCalledShort
    /\ pc = "panicked"
    /\ ops[1].n >= 4
    /\ Take(decoded, 4) = Take(input, 4)

\* encode_quads of kernel E was called directly and returned
EncodeQuadsCalled(E) ==
    /\ call.op = "encode_quads"
    /\ call.kernel = E
    /\ pc = "returned"

\* the q-th quad of the input
InputQuad(q) == SubSeq(input, 4 * q - 3, 4 * q)

\* C13: for an input of N complete quads (control_bytes.len() = N),
\* NeonEncoder::encode_quads encodes exactly max(0, N - 3) quads: it returns
\* nums_encoded = 4 * max(0, N - 3) and has written exactly those control bytes,
\* leaving the last up-to-three to the scalar encoder.
C13_NeonQuadCount ==
    EncodeQuadsCalled("Neon")
        => /\ call.r.nums_encoded = 4 * Max(0, call.n - 3)
           /\ \A q \in 1..call.n :
                 call.r.control_bytes[q] = IF q <= call.n - 3
                                           THEN PartialControlByte(InputQuad(q))
                                           ELSE call.before[q]

\* C14: for Scalar and NeonEncoder and every input of complete quads, the pair
\* (nums_encoded, bytes_written) returned by encode_quads has nums_encoded a
\* multiple of 4 and bytes_written equal to the sum of the encoded lengths of the
\* first nums_encoded / 4 control bytes written (0 when nums_encoded = 0).
C14_ReturnContract ==
    \A E \in Encoders :
        EncodeQuadsCalled(E)
            => /\ call.r.nums_encoded % 4 = 0
               /\ call.r.bytes_written
                     = cumulative_encoded_len(
                           Take(call.r.control_bytes, call.r.nums_encoded \div 4))

\* the value bytes of all call.n quads handed to encode_quads
TotalValueLength == SumSignificant(Take(input, 4 * call.n))

\* C15: for Scalar and NeonEncoder and every call encode_quads(input,
\* control_bytes, output), no byte of output at an index at or beyond the total
\* value-byte length of all control_bytes.len() quads is modified; with zero
\* control bytes nothing in output is written and nothing in input is read.
C15_WriteConfinement ==
    \A E \in Encoders :
        EncodeQuadsCalled(E)
            => /\ \A i \in (TotalValueLength + 1)..Len(call.r.encoded_nums) :
                     call.r.encoded_nums[i] = call.before[call.n + i]
               /\ (call.n = 0 => ~ub)

\* decode_quads of kernel D was called directly, on a region that holds all the
\* value bytes
DecodeQuadsCalled(D) ==
    /\ call.op = "decode_quads"
    /\ call.kernel = D
    /\ Len(call.encoded_nums) >= SumSignificant(input)

\* the decoded slice of a call that delivered the first k quads of the input from
\* position nums_already_decoded on and nothing else
DeliveredQuads(k) ==
    Fill(call.nad, Sentinel) \o Take(input, 4 * k)
        \o Fill(Len(input) - 4 * k, Sentinel)

\* the number of quads NeonDecoder::decode_quads is to decode
NeonQuads == Min(call.n, Max(0, Len(input) \div 4 - 3))

\* C16: NeonDecoder::decode_quads given N control bytes and a request for m
\* decodes exactly k = min(m, max(0, N - 3)) quads: it returns (4 * k, sum of
\* LENGTH_PER_QUAD over the first k control bytes), delivers those k quads with
\* their values at positions nums_already_decoded + 4 * j, and nothing later.
C16_NeonQuadLimit ==
    DecodeQuadsCalled("Neon")
        => /\ pc = "returned"
           /\ call.r.nums_decoded = 4 * NeonQuads
           /\ call.r.bytes_read = cumulative_encoded_len(Take(CompleteControlBytes, NeonQuads))
           /\ call.r.bytes_read = SumSignificant(Take(input, 4 * NeonQuads))
           /\ call.r.sink.quads
                 = [j \in 1..NeonQuads |-> <<InputQuad(j), call.nad + 4 * (j - 1)>>]
           /\ decoded = DeliveredQuads(NeonQuads)

C16_Witness ==
    /\ DecodeQuadsCalled("Neon")
    /\ pc = "returned"
    /\ input = Hundreds
    /\ call.n = 14
    /\ call.r.nums_decoded = 13 * 4
    /\ SubSeq(decoded, 1, 52) = SubSeq(input, 1, 52)
    /\ decoded[53] = Sentinel

\* the offset of the value bytes of the q-th quad of the input
QuadOffset(q) == SumSignificant(Take(input, 4 * (q - 1)))

\* C17: for every quad (v0, v1, v2, v3), Scalar::encode_quads writes the control
\* byte (len0-1) | (len1-1)<<2 | (len2-1)<<4 | (len3-1)<<6 with len_i = max(1,
\* 4 - floor(leading_zero_bits(v_i) / 8)), and writes at the running offset the
\* concatenation, without padding, of the low len_i bytes of each v_i, least
\* significant byte first.
C17_QuadFormat ==
    (call.op = "encode_quads" /\ call.kernel = "Scalar")
        => /\ pc = "returned"
           /\ \A i \in 1..(4 * call.n) :
                 SignificantBytes(input[i]) = Max(1, 4 - leading_zeros(input[i]) \div 8)
           /\ \A q \in 1..call.n :
                 /\ call.r.control_bytes[q] = PartialControlByte(InputQuad(q))
                 /\ SubSeq(call.r.encoded_nums, QuadOffset(q) + 1, QuadOffset(q + 1))
                       = ConcatValueBytes(InputQuad(q))

C17_Witness ==
    /\ EncodeQuadsCalled("Scalar")
    /\ call.n >= 2
    /\ \E q \in 2..call.n :
          /\ [i \in 1..4 |-> SignificantBytes(InputQuad(q)[i])] = <<1, 2, 3, 4>>
          /\ call.r.control_bytes[q] = 228
    /\ \E i \in 1..4 : input[i] = U(0, 0)

\* the number of quads Scalar::decode_quads is to decode
ScalarQuads == Min(Len(input) \div 4, call.n)

\* C18: Scalar::decode_quads with k = min(control_bytes.len(), max_quads) calls
\* sink.on_number exactly 4 * k times, at the consecutive positions
\* nums_already_decoded .. nums_already_decoded + 4 * k - 1 in increasing order
\* (lane i of quad j at nums_already_decoded + 4 * j + i), never calls on_quad,
\* and returns (4 * k, sum of the lane lengths of those k control bytes).
C18_ScalarDeliveryOrder ==
    DecodeQuadsCalled("Scalar")
        => /\ pc = "returned"
           /\ call.r.sink.calls
                 = [p \in 1..(4 * ScalarQuads) |-> <<input[p], call.nad + p - 1>>]
           /\ call.r.sink.quads = <<>>
           /\ call.r.nums_decoded = 4 * ScalarQuads
           /\ call.r.bytes_read = cumulative_encoded_len(Take(CompleteControlBytes, ScalarQuads))
           /\ call.r.bytes_read = SumSignificant(Take(input, 4 * ScalarQuads))

C18_Witness ==
    /\ DecodeQuadsCalled("Scalar")
    /\ pc = "returned"
    /\ call.nad = 4
    /\ Len(input) >= 12
    /\ call.n = Len(input) \div 4 + 1
    /\ Len(call.r.sink.calls) = Len(input)
    /\ call.r.sink.calls[Len(input)] = <<input[Len(input)], Len(input) + 3>>

\* C20: when NeonDecoder::decode_quads is given the N complete-quad control bytes
\* of a valid encoding and an encoded_nums holding at least all their value
\* bytes, every 16-byte window encoded_nums[bytes_read .. bytes_read + 16] it
\* loads lies inside encoded_nums, so the slice never panics.
C20_LoadInBounds ==
    DecodeQuadsCalled("Neon")
        => /\ ~call.r.panic
           /\ \A j \in 1..(call.r.nums_decoded \div 4) :
                 QuadOffset(j) + 16 <= Len(call.encoded_nums)

C20_Witness ==
    /\ DecodeQuadsCalled("Neon")
    /\ pc = "returned"
    /\ call.r.nums_decoded >= 8
    /\ Len(call.encoded_nums) = SumSignificant(input)
    /\ QuadOffset(call.r.nums_decoded \div 4) + 16 = Len(call.encoded_nums)

\* nums_encoded as the backend of the last encode returns it for the complete
\* quads of the input
BackendNumsEncoded ==
    E_encode_quads(call.kernel, input, Fill(Len(input) \div 4, 0),
                   Fill(5 * Len(input), 0), U(0, 0)).nums_encoded

\* C19: in encode, for any backend whose encode_quads returns nums_encoded that is
\* a multiple of 4 and at most 4 * complete_control_bytes_len, the scalar
\* finishing pass encodes exactly the remaining complete quads: the assertion
\* complete_control_bytes_len * 4 == nums_encoded + more_nums_encoded holds and
\* every complete control byte is written exactly once.
C19_DriverCompletion ==
    (/\ call.op = "encode"
     /\ BackendNumsEncoded % 4 = 0
     /\ BackendNumsEncoded <= 4 * (Len(input) \div 4))
        => /\ pc = "encoded"
           /\ assert_ok
           /\ \A q \in 1..(Len(input) \div 4) :
                 /\ call.writes[q] = 1
                 /\ output[q] = PartialControlByte(InputQuad(q))

\* Scalar::decode_quads was called on a value region shorter than the lane lengths
\* of the control bytes to decode
TruncatedCall ==
    /\ call.op = "decode_quads"
    /\ call.kernel = "Scalar"
    /\ Len(call.encoded_nums) < SumSignificant(Take(input, 4 * ScalarQuads))

\* the numbers whose bytes are all inside the region: those before the first one
\* that is not fully available
AvailableNums ==
    Cardinality({p \in 1..(4 * ScalarQuads) :
                    SumSignificant(Take(input, p)) <= Len(call.encoded_nums)})

\* C21: when the value region passed to Scalar::decode_quads is shorter than the
\* sum of the lane lengths demanded by the control bytes to decode, the call
\* panics at the first number whose bytes are not fully available; no number
\* built from bytes outside the region is delivered, and the numbers delivered
\* before the panic are the correct ones.
C21_TruncatedInput ==
    TruncatedCall
        => /\ pc = "panicked"
           /\ call.r.sink.calls
                 = [p \in 1..AvailableNums |-> <<input[p], call.nad + p - 1>>]
           /\ call.r.sink.quads = <<>>

C21_Witness ==
    /\ TruncatedCall
    /\ pc = "panicked"
    /\ Len(call.r.sink.calls) >= 5
    /\ Len(call.r.sink.calls) % 4 # 0
    /\ SumSignificant(Take(input, AvailableNums)) < Len(call.encoded_nums)
    /\ Take(decoded, AvailableNums) = Take(input, AvailableNums)
    /\ decoded[AvailableNums + 1] = Sentinel

\* the lane code of the claim for input[i + 1]: saturating_sub(3, clz(v_i) >> 3)
LaneCodeOf(i) == Max(0, 3 - leading_zeros(input[i + 1]) \div 8)

\* C22: for every quad of u32 values, with lane codes c_i = saturating_sub(3,
\* clz(v_i) >> 3), the word m = c3 | c2<<8 | c1<<16 | c0<<24 gathered by GATHER_LO
\* satisfies ((m * CONCAT) mod 2^32) >> 24 = c0 | c1<<2 | c2<<4 | c3<<6, the scalar
\* control byte, and 4 + (((m * SUM) mod 2^32) >> 24) = the sum of the lengths
\* max(1, 4 - floor(clz(v_i) / 8)), the quad's value-byte length; no carry
\* reaches the top byte.
C22_NeonLengthArithmetic ==
    call.op = "code_and_length"
        => /\ call.mulshift = <<LaneCodeOf(3), LaneCodeOf(2), LaneCodeOf(1), LaneCodeOf(0)>>
           /\ call.code = LaneCodeOf(0) + 4 * LaneCodeOf(1) + 16 * LaneCodeOf(2)
                             + 64 * LaneCodeOf(3)
           /\ call.code = PartialControlByte(input)
           /\ call.length = SumSignificant(input)
           /\ call.code_and_length[1]
                 = <<LaneCodeOf(3),
                     LaneCodeOf(2) + 4 * LaneCodeOf(3),
                     LaneCodeOf(1) + 4 * LaneCodeOf(2) + 16 * LaneCodeOf(3),
                     call.code>>
           /\ call.code_and_length[2]
                 = <<LaneCodeOf(3),
                     LaneCodeOf(3) + LaneCodeOf(2),
                     LaneCodeOf(3) + LaneCodeOf(2) + LaneCodeOf(1),
                     call.length - 4>>

C22_Witness ==
    /\ call.op = "code_and_length"
    /\ [i \in 1..4 |-> SignificantBytes(input[i])] = <<1, 2, 3, 4>>
    /\ input[1] = U(0, 0)
    /\ call.mulshift = <<3, 2, 1, 0>>
    /\ call.code = 228
    /\ call.length = 10

====
